---- MODULE Spec2Model ----
(***************************************************************************)
(* Model of the event router of realtime-event-pipeline (src/src/router.py)*)
(* The router keeps a registry of subscribers (two Python dicts), a        *)
(* bounded asyncio.Queue of events and a background task that drains the   *)
(* queue and sends every event to the subscribers whose filter matches.    *)
(* Everything between two awaits of a coroutine is one atomic step of the  *)
(* asyncio event loop; the only suspension points of the dispatch loop are *)
(* the wait on an empty queue and the await of websocket.send_json.        *)
(***************************************************************************)
EXTENDS Integers, Sequences, FiniteSets, TLC

----------------------------------------------------------------------------
(* Bounds of the model *)

\* subscriber ids are 1..NumIds; the ids are interchangeable, so a call
\* names an id seen before or the next new one
NumIds == 2
\* max_subscribers is drawn from 0..MaxSubsBound at construction
MaxSubsBound == 2
\* max_queue_size is drawn from 0..MaxQueueBound at construction
MaxQueueBound == 1
\* number of publish calls (each call brings an event with a fresh id)
MaxPublish == 2
\* number of connections (websockets) that call subscribe
MaxSubscribeCalls == 2
\* number of start() calls
MaxTasks == 2
\* number of subscribe calls on a router whose start() is called again
MaxSubscribeStarts == 1

\* number of publish calls on a server whose subscribers update filters
MaxAppPublish == 1
\* the clock of the server reads the seconds 0..MaxSec
MaxSec == 1
\* client addresses are 1..NumIps
NumIps == 2
\* max_per_ip is drawn from 0..MaxPerIpBound at construction
MaxPerIpBound == 2

Ids == 1..NumIds
TaskIds == 1..MaxTasks
Ips == 1..NumIps

----------------------------------------------------------------------------
(* Python dict with insertion order, as CPython keeps it: an array of      *)
(* entries in which a deleted entry stays as a dummy, and a count of the   *)
(* entries still usable before the table is rebuilt.                       *)

\* usable entries of the smallest key table (size 8)
InitUsable == 5

Dummy == [k |-> 0, v |-> 0]

EmptyDict == [entries |-> <<>>, usable |-> InitUsable]

RECURSIVE CountLive(_)
CountLive(es) ==
    IF es = <<>> THEN 0
    ELSE (IF Head(es).k # 0 THEN 1 ELSE 0) + CountLive(Tail(es))

\* len(d)
DictLen(d) == CountLive(d.entries)

\* k in d
DictHas(d, k) == \E i \in 1..Len(d.entries) : d.entries[i].k = k

\* index of the entry of key k (0 when absent)
DictIndex(d, k) ==
    IF DictHas(d, k)
    THEN CHOOSE i \in 1..Len(d.entries) : d.entries[i].k = k
    ELSE 0

\* d[k] for a key that is present
DictGet(d, k) == d.entries[DictIndex(d, k)].v

\* the keys of d
DictKeys(d) == {d.entries[i].k : i \in 1..Len(d.entries)} \ {0}

\* the (key, value) pairs of d
DictItems(d) ==
    {d.entries[i] : i \in {j \in 1..Len(d.entries) : d.entries[j].k # 0}}

RECURSIVE Compact(_)
Compact(es) ==
    IF es = <<>> THEN <<>>
    ELSE IF Head(es).k # 0 THEN <<Head(es)>> \o Compact(Tail(es))
    ELSE Compact(Tail(es))

RECURSIVE Pow2Above(_, _)
\* smallest power of two, starting from p, that is greater than x
Pow2Above(p, x) == IF p > x THEN p ELSE Pow2Above(2 * p, x)

\* size of the key table that holds minsize entries (never below 8)
KeySize(minsize) ==
    LET m == (IF (minsize \div 8) % 2 = 1 THEN minsize ELSE minsize + 8) - 1
    IN  Pow2Above(8, m)

\* the table is rebuilt without its dummies when no entry is usable
DictResize(d) ==
    LET used == DictLen(d)
    IN  [entries |-> Compact(d.entries),
         usable  |-> ((KeySize(used * 3) * 2) \div 3) - used]

\* d[k] = v
DictSet(d, k, v) ==
    IF DictHas(d, k)
    THEN [d EXCEPT !.entries[DictIndex(d, k)] = [k |-> k, v |-> v]]
    ELSE LET r == IF d.usable <= 0 THEN DictResize(d) ELSE d
         IN  [entries |-> Append(r.entries, [k |-> k, v |-> v]),
              usable  |-> r.usable - 1]

\* del d[k] for a key that is present
DictDel(d, k) == [d EXCEPT !.entries[DictIndex(d, k)] = Dummy]

\* iter(d.items()): position in the entry array, items still expected,
\* and the size the dict had when the iteration began
NewIter(d) == [pos |-> 0, len |-> DictLen(d), used |-> DictLen(d)]

RECURSIVE SkipDummies(_, _)
SkipDummies(es, i) ==
    IF i <= Len(es) /\ es[i].k = 0 THEN SkipDummies(es, i + 1) ELSE i

\* next(it): the next item, the end of the iteration, or RuntimeError
IterNext(d, it) ==
    LET i == SkipDummies(d.entries, it.pos + 1)
    IN  IF it.used # DictLen(d)
        THEN [kind |-> "error", item |-> Dummy, it |-> it]
        ELSE IF i > Len(d.entries)
        THEN [kind |-> "stop", item |-> Dummy, it |-> it]
        ELSE IF it.len = 0
        THEN [kind |-> "error", item |-> Dummy, it |-> it]
        ELSE [kind |-> "item", item |-> d.entries[i],
              it |-> [pos |-> i, len |-> it.len - 1, used |-> it.used]]

----------------------------------------------------------------------------
(* Events and filters *)

EventTypes == {"quiz_started", "answer_submitted"}

\* Optional[str] fields: None, the empty string or a string
NoneStr == "<None>"
AbsentStr == "<absent>"
Strs == {"", "a", "b"}

\* the fields of EventResponse that the router reads
Events ==
    [event_type : EventTypes,
     session_id : Strs \cup {NoneStr},
     user_id    : Strs \cup {NoneStr}]

\* filters["event_types"]: key absent, None, or a list of type names
TypeDims ==
    {[kind |-> "absent", v |-> {}], [kind |-> "none", v |-> {}]}
        \cup [kind : {"list"}, v : SUBSET EventTypes]

\* filters["session_id"], filters["user_id"]: key absent, None or a string
StrDims == Strs \cup {NoneStr, AbsentStr}

\* the filter None (no dict at all)
NoneFilter ==
    [none |-> TRUE, event_types |-> [kind |-> "absent", v |-> {}],
     session_id |-> AbsentStr, user_id |-> AbsentStr]

Filters ==
    [none : {FALSE}, event_types : TypeDims,
     session_id : StrDims, user_id : StrDims] \cup {NoneFilter}

\* "key" in filters
HasKey(f, key) ==
    CASE key = "event_types" -> f.event_types.kind # "absent"
      [] key = "session_id"  -> f.session_id # AbsentStr
      [] key = "user_id"     -> f.user_id # AbsentStr

\* truth value of filters["event_types"] (None and [] are false)
TypesTruthy(d) == d.kind = "list" /\ d.v # {}

\* truth value of filters["session_id"] / ["user_id"] (None and "" are false)
StrTruthy(s) == s \notin {AbsentStr, NoneStr, ""}

\* truth value of the filter dict itself (None and {} are false)
FilterTruthy(f) ==
    /\ ~f.none
    /\ \/ HasKey(f, "event_types")
       \/ HasKey(f, "session_id")
       \/ HasKey(f, "user_id")

MatchesFilterNoUser(event, f) ==
    IF ~FilterTruthy(f) THEN TRUE
    ELSE IF /\ HasKey(f, "event_types") /\ TypesTruthy(f.event_types)
            /\ event.event_type \notin f.event_types.v
    THEN FALSE
    ELSE IF /\ HasKey(f, "session_id") /\ StrTruthy(f.session_id)
            /\ event.session_id # f.session_id
    THEN FALSE
    ELSE TRUE

\* EventRouter._matches_filter
MatchesFilter(event, f) ==
    IF ~FilterTruthy(f) THEN TRUE
    ELSE IF /\ HasKey(f, "event_types") /\ TypesTruthy(f.event_types)
            /\ event.event_type \notin f.event_types.v
    THEN FALSE
    ELSE IF /\ HasKey(f, "session_id") /\ StrTruthy(f.session_id)
            /\ event.session_id # f.session_id
    THEN FALSE
    ELSE IF /\ HasKey(f, "user_id") /\ StrTruthy(f.user_id)
            /\ event.user_id # f.user_id
    THEN FALSE
    ELSE TRUE

----------------------------------------------------------------------------
(* State of the router *)

VARIABLES
    max_queue_size,   \* maxsize the queue was constructed with
    max_subscribers,  \* self.max_subscribers
    subscribers,      \* self.subscribers: id -> connection handle
    filters,          \* self.filters: id -> filter
    event_queue,      \* self.event_queue: events waiting for dispatch
    tasks,            \* the tasks created by start(), each a dispatch loop
    processor_task,   \* self._processor_task (0 is None)
    next_event,       \* id of the event of the next publish call
    next_handle,      \* connection handle of the next subscribe call
    ids_used,         \* the subscriber ids seen so far are 1..ids_used
    rejected,         \* ids of the events for which publish returned False
    removed,          \* (id, handle) pairs unsubscribed and not subscribed again
    queued_at_stop,   \* ids of the events queued when stop() cancelled a loop
    connected,        \* ids whose subscriber connection is open
    starts,           \* start/stop as the caller has called them so far
    dequeued,         \* ids of the events the loops took from the queue
    last,             \* the call or loop step that led to this state
    mf,               \* a call of _matches_filter on its own
    stored,           \* rows of the events table: id and timestamp text
    max_per_ip,       \* ws_limiter.max_per_ip
    connections,      \* ws_limiter._connections: ip -> count
    lim_last,         \* the last call on the limiter
    lim_prev          \* the call on the limiter before the last

vars == <<max_queue_size, max_subscribers, subscribers, filters, event_queue,
          tasks, processor_task, next_event, next_handle, ids_used,
          rejected, removed, queued_at_stop, connected, starts, dequeued,
          last, mf, stored, max_per_ip, connections, lim_last, lim_prev>>

\* the state of the limiter of websocket connections
limiterVars == <<max_per_ip, connections, lim_last, lim_prev>>

routerVars == <<max_queue_size, max_subscribers, subscribers, filters,
                event_queue, tasks, processor_task, next_event, next_handle,
                ids_used, rejected, removed, queued_at_stop, connected,
                starts, dequeued, last>>

\* the events published in the router model
EventKinds ==
    {[event_type |-> "quiz_started", session_id |-> "a", user_id |-> "a"]}

\* the filters subscribers register in the router model: {} and one that
\* does not match the published events
SubFilters ==
    {[none |-> FALSE, event_types |-> [kind |-> "absent", v |-> {}],
      session_id |-> AbsentStr, user_id |-> AbsentStr],
     [none |-> FALSE,
      event_types |-> [kind |-> "list", v |-> {"quiz_started"}],
      session_id |-> "a", user_id |-> "b"]}

\* the dict {}
EmptyFilterDict ==
    [none |-> FALSE, event_types |-> [kind |-> "absent", v |-> {}],
     session_id |-> AbsentStr, user_id |-> AbsentStr]

\* the values of the "filters" key of the update_filters messages in the
\* router model: one that matches the published events, with the event
\* type only, and one that does not match them
UpdateValues ==
    {[none |-> FALSE,
      event_types |-> [kind |-> "list", v |-> {"quiz_started"}],
      session_id |-> AbsentStr, user_id |-> AbsentStr],
     [none |-> FALSE,
      event_types |-> [kind |-> "list", v |-> {"quiz_started"}],
      session_id |-> "a", user_id |-> "b"]}

\* the update_filters messages: with or without the "filters" key
UpdateMsgs ==
    {[has |-> FALSE, filters |-> NoneFilter]}
        \cup [has : {TRUE}, filters : UpdateValues]

EventOf(id, kind) ==
    [id |-> id, event_type |-> kind.event_type,
     session_id |-> kind.session_id, user_id |-> kind.user_id]

NoEvent ==
    [id |-> 0, event_type |-> "", session_id |-> NoneStr,
     user_id |-> NoneStr]

NoIter == [pos |-> 0, len |-> 0, used |-> 0]

\* self.filters = {}
EmptyFilters == [keys |-> {}, val |-> [i \in Ids |-> NoneFilter]]

\* a dispatch loop: where it is suspended, whether cancel() was called on
\* it, the event it dispatches, its iterator over subscribers.items(), the
\* subscription it is sending to and its list of disconnected ids.  failed,
\* began, whole and tried record, for the event being dispatched, the
\* subscriptions whose send failed, those registered with a matching filter
\* when the dispatch began, those registered with a matching filter ever
\* since, and those a send was started to; sends counts the sends started
\* and stable tells that the registry has not changed since the dispatch
\* began.
NoTask ==
    [pc |-> "none", cancel |-> FALSE, ev |-> NoEvent, it |-> NoIter,
     cur |-> Dummy, disc |-> <<>>, failed |-> {}, began |-> {},
     whole |-> {}, tried |-> {}, sends |-> 0, stable |-> TRUE]

WaitingTask == [NoTask EXCEPT !.pc = "get"]

\* what get_stats returns, and the value for a step that is no get_stats
NoStats == [active_subscribers |-> -1, queue_size |-> -1]

\* the step that led to a state: the call or loop step, the id and the
\* handle an unsubscribe removed, the value a call returned, the sends the
\* step started, the dispatch it finished, the filter a connection sent and
\* the statistics a get_stats returned
NoLast ==
    [op |-> "init", id |-> 0, h |-> 0, res |-> "None", started |-> {},
     fin |-> {}, f |-> NoneFilter, stats |-> NoStats]

NoCall == [pc |-> "idle", ev |-> NoEvent, f |-> NoneFilter, res |-> FALSE]

\* defaultdict(int), empty: the value of an ip that is not a key is kept 0
EmptyConnections == [keys |-> {}, val |-> [i \in Ips |-> 0]]

\* a call on the limiter: the method, its argument, what it returned and
\* the count of the ip when it was called
NoLimCall == [op |-> "none", ip |-> 0, res |-> FALSE, before |-> 0]

\* the limiter of a router that is looked at on its own
IdleLimiter ==
    /\ max_per_ip = MaxPerIpBound
    /\ connections = EmptyConnections
    /\ lim_last = NoLimCall
    /\ lim_prev = NoLimCall

\* EventRouter.__init__
Init ==
    /\ max_queue_size \in 0..MaxQueueBound
    /\ max_subscribers \in 0..MaxSubsBound
    /\ subscribers = EmptyDict
    /\ filters = EmptyFilters
    /\ event_queue = <<>>
    /\ tasks = [t \in TaskIds |-> NoTask]
    /\ processor_task = 0
    /\ next_event = 1
    /\ next_handle = 1
    /\ ids_used = 0
    /\ rejected = {}
    /\ removed = {}
    /\ queued_at_stop = {}
    /\ connected = {}
    /\ starts = "none"
    /\ dequeued = <<>>
    /\ last = NoLast
    /\ mf = NoCall
    /\ stored = {}
    /\ IdleLimiter

----------------------------------------------------------------------------
(* Registry operations *)

AtCapacityOffByOne(n, max) == n > max

\* the capacity test of subscribe
AtCapacity(n, max) == n >= max

SubscribeOpReplaceAtCapacity(subs, filt, max, id, h, f) ==
    IF AtCapacity(DictLen(subs), max) /\ ~DictHas(subs, id)
    THEN [res |-> FALSE, subs |-> subs, filt |-> filt]
    ELSE [res |-> TRUE,
          subs |-> DictSet(subs, id, h),
          filt |-> [keys |-> filt.keys \cup {id},
                    val  |-> [filt.val EXCEPT ![id] = f]]]

\* EventRouter.subscribe on the two dicts
SubscribeOp(subs, filt, max, id, h, f) ==
    IF AtCapacity(DictLen(subs), max)
    THEN [res |-> FALSE, subs |-> subs, filt |-> filt]
    ELSE [res |-> TRUE,
          subs |-> DictSet(subs, id, h),
          filt |-> [keys |-> filt.keys \cup {id},
                    val  |-> [filt.val EXCEPT ![id] = f]]]

UnsubscribeOpInverted(subs, filt, id) ==
    IF ~DictHas(subs, id)
    THEN [err |-> TRUE, subs |-> subs, filt |-> filt]
    ELSE [err |-> FALSE, subs |-> subs, filt |-> filt]

UnsubscribeOpNoGuard(subs, filt, id) ==
    IF DictHas(subs, id) /\ id \in filt.keys
    THEN [err |-> FALSE,
          subs |-> DictDel(subs, id),
          filt |-> [keys |-> filt.keys \ {id},
                    val  |-> [filt.val EXCEPT ![id] = NoneFilter]]]
    ELSE [err |-> TRUE, subs |-> subs, filt |-> filt]

\* EventRouter.unsubscribe on the two dicts; err is a KeyError of a del
UnsubscribeOp(subs, filt, id) ==
    IF DictHas(subs, id)
    THEN IF id \in filt.keys
         THEN [err |-> FALSE,
               subs |-> DictDel(subs, id),
               filt |-> [keys |-> filt.keys \ {id},
                         val  |-> [filt.val EXCEPT ![id] = NoneFilter]]]
         ELSE [err |-> TRUE, subs |-> DictDel(subs, id), filt |-> filt]
    ELSE [err |-> FALSE, subs |-> subs, filt |-> filt]

\* asyncio.Queue.full: a maxsize of zero or less means no limit
QueueFull(q, maxsize) ==
    IF maxsize <= 0 THEN FALSE ELSE Len(q) >= maxsize

PutNowaitEvictOldest(q, maxsize, ev) ==
    IF QueueFull(q, maxsize)
    THEN [ok |-> FALSE, q |-> Append(Tail(q), ev)]
    ELSE [ok |-> TRUE, q |-> Append(q, ev)]

PutNowaitFront(q, maxsize, ev) ==
    IF QueueFull(q, maxsize)
    THEN [ok |-> FALSE, q |-> q]
    ELSE [ok |-> TRUE, q |-> <<ev>> \o q]

\* asyncio.Queue.put_nowait as publish uses it; ok is FALSE on QueueFull
PutNowait(q, maxsize, ev) ==
    IF QueueFull(q, maxsize)
    THEN [ok |-> FALSE, q |-> q]
    ELSE [ok |-> TRUE, q |-> Append(q, ev)]

PublishOpAwaitPut(q, maxsize, ev) ==
    IF QueueFull(q, maxsize)
    THEN [res |-> "suspended", q |-> q]
    ELSE [res |-> "True", q |-> Append(q, ev)]

\* EventRouter.publish on the queue: put_nowait, and False for QueueFull
PublishOp(q, maxsize, ev) ==
    LET p == PutNowait(q, maxsize, ev)
    IN  [res |-> IF p.ok THEN "True" ELSE "False", q |-> p.q]

GetStatsAllEntries(subs, q) ==
    [active_subscribers |-> Len(subs.entries), queue_size |-> Len(q)]

\* EventRouter.get_stats
GetStats(subs, q) ==
    [active_subscribers |-> DictLen(subs), queue_size |-> Len(q)]

\* the subscriptions registered with a filter that matches ev
Matching(subs, filt, ev) ==
    {e \in DictItems(subs) :
        e.k \in filt.keys /\ MatchesFilter(ev, filt.val[e.k])}

\* a call on id ends the registration that the loops recorded for id
Touch(ts, id) ==
    [t \in TaskIds |->
        [ts[t] EXCEPT !.whole = {e \in @ : e.k # id}]]

\* a change of the registry is seen by every loop suspended in a dispatch
Changed(ts) ==
    [t \in TaskIds |->
        IF ts[t].pc = "send" /\ ~ts[t].cancel
        THEN [ts[t] EXCEPT !.stable = FALSE]
        ELSE ts[t]]

----------------------------------------------------------------------------
(* The dispatch loop *)

AdvanceNoFilter(subs, filt, ev, it) ==
    LET r == IterNext(subs, it)
    IN  IF r.kind # "item" THEN r
        ELSE IF r.item.k \notin filt.keys
        THEN [r EXCEPT !.kind = "error"]
        ELSE r

RECURSIVE Advance(_, _, _, _)
\* the for loop of _route_event from one suspension to the next: the next
\* item whose filter matches, the end of the iteration, or an exception
\* (RuntimeError of the iterator, KeyError of self.filters[subscriber_id])
Advance(subs, filt, ev, it) ==
    LET r == IterNext(subs, it)
    IN  IF r.kind # "item" THEN r
        ELSE IF r.item.k \notin filt.keys
        THEN [r EXCEPT !.kind = "error"]
        ELSE IF MatchesFilter(ev, filt.val[r.item.k]) THEN r
        ELSE Advance(subs, filt, ev, r.it)

RECURSIVE Cleanup(_, _, _)
\* the second loop of _route_event: unsubscribe every disconnected id
Cleanup(subs, filt, disc) ==
    IF disc = <<>>
    THEN [err |-> FALSE, subs |-> subs, filt |-> filt, gone |-> {}]
    ELSE LET id == Head(disc)
             gone == {e \in DictItems(subs) : e.k = id}
             u == UnsubscribeOp(subs, filt, id)
         IN  IF u.err
             THEN [err |-> TRUE, subs |-> u.subs, filt |-> u.filt,
                   gone |-> gone]
             ELSE LET c == Cleanup(u.subs, u.filt, Tail(disc))
                  IN  [c EXCEPT !.gone = @ \cup gone]

RunFromGetStuck(subs, filt, queue) ==
    IF queue = <<>>
    THEN [pc |-> "get", ev |-> NoEvent, it |-> NoIter, cur |-> Dummy,
          queue |-> queue]
    ELSE LET ev == Head(queue)
             a == Advance(subs, filt, ev, NewIter(subs))
         IN  IF a.kind = "item"
             THEN [pc |-> "send", ev |-> ev, it |-> a.it, cur |-> a.item,
                   queue |-> Tail(queue)]
             ELSE [pc |-> "get", ev |-> NoEvent, it |-> NoIter,
                   cur |-> Dummy, queue |-> queue]

RECURSIVE RunFromGet(_, _, _)
\* _process_events from its queue.get() to the next suspension: get() does
\* not suspend while the queue holds an event, and an event that no
\* subscriber matches is routed without any await
RunFromGet(subs, filt, queue) ==
    IF queue = <<>>
    THEN [pc |-> "get", ev |-> NoEvent, it |-> NoIter, cur |-> Dummy,
          queue |-> queue]
    ELSE LET ev == Head(queue)
             a == Advance(subs, filt, ev, NewIter(subs))
         IN  IF a.kind = "item"
             THEN [pc |-> "send", ev |-> ev, it |-> a.it, cur |-> a.item,
                   queue |-> Tail(queue)]
             ELSE RunFromGet(subs, filt, Tail(queue))

SuspendedEnds(subs, filt, r) ==
    IF r.pc = "send"
    THEN [pc |-> "send", cancel |-> FALSE, ev |-> r.ev, it |-> r.it,
          cur |-> r.cur, disc |-> <<>>, failed |-> {},
          began |-> Matching(subs, filt, r.ev),
          whole |-> Matching(subs, filt, r.ev), tried |-> {r.cur},
          sends |-> 1, stable |-> TRUE]
    ELSE [NoTask EXCEPT !.pc = "done"]

\* the task record of a loop that has run up to the suspension r
Suspended(subs, filt, r) ==
    IF r.pc = "send"
    THEN [pc |-> "send", cancel |-> FALSE, ev |-> r.ev, it |-> r.it,
          cur |-> r.cur, disc |-> <<>>, failed |-> {},
          began |-> Matching(subs, filt, r.ev),
          whole |-> Matching(subs, filt, r.ev), tried |-> {r.cur},
          sends |-> 1, stable |-> TRUE]
    ELSE WaitingTask

\* the ids of the events that a run of the loop took from the queue, q
\* being the queue before the run and rest the queue after it
Taken(q, rest) == [i \in 1..(Len(q) - Len(rest)) |-> q[i].id]

\* the send a loop step has started, if any
Started(r) ==
    IF r.pc = "send"
    THEN {[ev |-> r.ev.id, k |-> r.cur.k, v |-> r.cur.v]}
    ELSE {}

----------------------------------------------------------------------------
(* Actions: the calls on the router *)

\* a dispatch loop is live: created, not ended and not cancelled
Live(t) == tasks[t].pc \in {"get", "send"} /\ ~tasks[t].cancel

\* the body of EventRouter.start: create_task and the assignment of
\* self._processor_task
Spawn ==
    /\ \E t \in TaskIds :
        /\ tasks[t].pc = "none"
        /\ \A u \in TaskIds : u < t => tasks[u].pc # "none"
        /\ tasks' = [tasks EXCEPT ![t] = WaitingTask]
        /\ processor_task' = t
        /\ last' = [NoLast EXCEPT !.op = "start"]
    /\ UNCHANGED <<max_queue_size, max_subscribers, subscribers, filters,
                   event_queue, next_event, next_handle, ids_used, rejected,
                   removed, queued_at_stop, connected, dequeued,
                   mf, stored, limiterVars>>

\* EventRouter.start, the first call on a router
Start ==
    /\ starts = "none"
    /\ Spawn
    /\ starts' = "started"

\* EventRouter.start called again after stop(): a restart
Restart ==
    /\ starts = "stopped"
    /\ Spawn
    /\ starts' = "started"

\* EventRouter.start called again with no stop() since the last start()
StartTwice ==
    /\ starts \in {"started", "twice"}
    /\ Spawn
    /\ starts' = "twice"

HasTaskAlways(p) == TRUE

\* the test of stop: if self._processor_task
HasTask(p) == p # 0

CancelTaskLost(ts, p) == ts

\* Task.cancel: a task that has ended is left alone; a suspended task is
\* marked, and whatever it was doing is abandoned
CancelTask(ts, p) ==
    IF ts[p].pc \in {"get", "send"}
    THEN [ts EXCEPT ![p] = [NoTask EXCEPT !.pc = ts[p].pc, !.cancel = TRUE]]
    ELSE ts

\* EventRouter.stop on the tasks; None has no cancel()
StopOp(ts, p) ==
    IF HasTask(p)
    THEN IF p \in TaskIds
         THEN [res |-> "None", tasks |-> CancelTask(ts, p)]
         ELSE [res |-> "AttributeError", tasks |-> ts]
    ELSE [res |-> "None", tasks |-> ts]

StopClosesConnections ==
    /\ LET s == StopOp(tasks, processor_task)
       IN  /\ tasks' = s.tasks
           /\ last' = [NoLast EXCEPT !.op = "stop", !.res = s.res]
    /\ queued_at_stop' =
        IF processor_task # 0 /\ Live(processor_task)
        THEN queued_at_stop \cup
                {event_queue[i].id : i \in 1..Len(event_queue)}
        ELSE queued_at_stop
    /\ starts' = IF starts = "started" THEN "stopped" ELSE starts
    /\ subscribers' = EmptyDict
    /\ filters' = EmptyFilters
    /\ connected' = {}
    /\ UNCHANGED <<max_queue_size, max_subscribers, event_queue,
                   processor_task, next_event, next_handle, ids_used,
                   rejected, removed, dequeued,
                   mf, stored, limiterVars>>

\* EventRouter.stop
Stop ==
    /\ LET s == StopOp(tasks, processor_task)
       IN  /\ tasks' = s.tasks
           /\ last' = [NoLast EXCEPT !.op = "stop", !.res = s.res]
    /\ queued_at_stop' =
        IF processor_task # 0 /\ Live(processor_task)
        THEN queued_at_stop \cup
                {event_queue[i].id : i \in 1..Len(event_queue)}
        ELSE queued_at_stop
    /\ starts' = IF starts = "started" THEN "stopped" ELSE starts
    /\ UNCHANGED <<max_queue_size, max_subscribers, subscribers, filters,
                   event_queue, processor_task, next_event, next_handle,
                   ids_used, rejected, removed, connected, dequeued,
                   mf, stored, limiterVars>>

\* the websockets a caller can pass to subscribe
Handles == 1..MaxSubscribeCalls

\* EventRouter.subscribe with the websocket h: one that was passed
\* before, or the websocket of a new connection
Subscribe(id, h, f) ==
    /\ h <= next_handle
    /\ h <= MaxSubscribeCalls
    /\ id <= ids_used + 1
    /\ ids_used' = IF id > ids_used THEN id ELSE ids_used
    /\ LET s == SubscribeOp(subscribers, filters, max_subscribers, id,
                            h, f)
       IN  /\ subscribers' = s.subs
           /\ filters' = s.filt
           /\ tasks' = IF s.res THEN Changed(Touch(tasks, id)) ELSE tasks
           /\ removed' = IF s.res THEN {e \in removed : e.k # id}
                         ELSE removed
           /\ connected' = IF s.res THEN connected \cup {id} ELSE connected
           /\ last' = [NoLast EXCEPT !.op = "subscribe",
                          !.res = IF s.res THEN "True" ELSE "False"]
    /\ next_handle' = IF h = next_handle THEN next_handle + 1
                     ELSE next_handle
    /\ UNCHANGED <<max_queue_size, max_subscribers, event_queue,
                   processor_task, next_event, rejected, queued_at_stop, starts,
                   dequeued,
                   mf, stored, limiterVars>>

\* EventRouter.subscribe called by a new connection
SubscribeNew(id, f) == Subscribe(id, next_handle, f)

\* EventRouter.unsubscribe
Unsubscribe(id) ==
    /\ id <= ids_used + 1
    /\ LET u == UnsubscribeOp(subscribers, filters, id)
       IN  /\ subscribers' = u.subs
           /\ filters' = u.filt
           /\ tasks' = IF DictHas(subscribers, id)
                       THEN Changed(Touch(tasks, id)) ELSE tasks
           /\ removed' = removed \cup {e \in DictItems(subscribers) : e.k = id}
           /\ connected' = connected \ {id}
           /\ last' = [NoLast EXCEPT !.op = "unsubscribe", !.id = id,
                          !.h = IF DictHas(subscribers, id)
                                THEN DictGet(subscribers, id) ELSE 0,
                          !.res = IF u.err THEN "KeyError" ELSE "None"]
    /\ UNCHANGED <<max_queue_size, max_subscribers, event_queue,
                   processor_task, next_event, next_handle, ids_used,
                   rejected, queued_at_stop, starts, dequeued,
                   mf, stored, limiterVars>>

\* EventRouter.publish
Publish(kind) ==
    /\ next_event <= MaxPublish
    /\ LET p == PublishOp(event_queue, max_queue_size,
                          EventOf(next_event, kind))
       IN  /\ event_queue' = p.q
           /\ rejected' = IF p.res = "False"
                          THEN rejected \cup {next_event} ELSE rejected
           /\ last' = [NoLast EXCEPT !.op = "publish", !.res = p.res]
    /\ next_event' = next_event + 1
    /\ UNCHANGED <<max_queue_size, max_subscribers, subscribers, filters,
                   tasks, processor_task, next_handle, ids_used, removed,
                   queued_at_stop, connected, starts, dequeued,
                   mf, stored, limiterVars>>

----------------------------------------------------------------------------
(* Actions: the router and the handlers of server.py.  The module has its  *)
(* own EventRouter, with a queue that has no bound and a registry that has *)
(* no capacity; its start, stop, unsubscribe, get_stats and dispatch loop  *)
(* are those of the router above.                                          *)

\* filters or {}
FilterOrEmpty(f) == IF FilterTruthy(f) THEN f ELSE EmptyFilterDict

\* EventRouter.subscribe of the server on the two dicts: no capacity test,
\* no result
ServerSubscribeOp(subs, filt, id, h, f) ==
    [res |-> "None",
     subs |-> DictSet(subs, id, h),
     filt |-> [keys |-> filt.keys \cup {id},
               val  |-> [filt.val EXCEPT ![id] = FilterOrEmpty(f)]]]

\* EventRouter.subscribe of the server, once websocket.accept() is over
ServerSubscribe(id, f) ==
    /\ next_handle <= MaxSubscribeCalls
    /\ id <= ids_used + 1
    /\ ids_used' = IF id > ids_used THEN id ELSE ids_used
    /\ LET s == ServerSubscribeOp(subscribers, filters, id, next_handle, f)
       IN  /\ subscribers' = s.subs
           /\ filters' = s.filt
           /\ tasks' = Changed(Touch(tasks, id))
           /\ removed' = {e \in removed : e.k # id}
           /\ connected' = connected \cup {id}
           /\ last' = [NoLast EXCEPT !.op = "subscribe", !.res = s.res]
    /\ next_handle' = next_handle + 1
    /\ UNCHANGED <<max_queue_size, max_subscribers, event_queue,
                   processor_task, next_event, rejected, queued_at_stop,
                   starts, dequeued, mf, stored, limiterVars>>

\* EventRouter.publish of the server on its queue: put() on a queue without
\* a bound takes every event and does not wait; no result
ServerPublishOp(q, ev) == [res |-> "None", q |-> Append(q, ev)]

\* EventRouter.publish of the server
ServerPublish(kind) ==
    /\ next_event <= MaxPublish
    /\ LET p == ServerPublishOp(event_queue, EventOf(next_event, kind))
       IN  /\ event_queue' = p.q
           /\ last' = [NoLast EXCEPT !.op = "publish", !.res = p.res]
    /\ next_event' = next_event + 1
    /\ UNCHANGED <<max_queue_size, max_subscribers, subscribers, filters,
                   tasks, processor_task, next_handle, ids_used, rejected,
                   removed, queued_at_stop, connected, starts, dequeued,
                   mf, stored, limiterVars>>

\* the characters of a timestamp that decide the order of two texts
Dot == 46
Zero == 48
Zed == 90

\* the microseconds the clock reads (written here as one digit)
Micros == {0, 5}

\* datetime.utcnow(): the clock is an input of the handler and may step
\* back between two calls
Clock == [sec : 0..MaxSec, micro : Micros]

\* datetime.isoformat() + "Z": the fraction is written only when the
\* microseconds are not 0 (the date and the hour, equal in all the texts,
\* are left out)
IsoFormat(t) ==
    <<Zero + t.sec>>
        \o (IF t.micro = 0 THEN <<>> ELSE <<Dot, Zero + t.micro>>)
        \o <<Zed>>

\* the timestamps a caller can write
Texts == {IsoFormat(t) : t \in Clock}

\* "timestamp < ?" of SQLite on two TEXT values: byte by byte, a proper
\* prefix first
RECURSIVE TextLess(_, _)
TextLess(a, b) ==
    IF b = <<>> THEN FALSE
    ELSE IF a = <<>> THEN TRUE
    ELSE IF a[1] # b[1] THEN a[1] < b[1]
    ELSE TextLess(Tail(a), Tail(b))

\* a row of the events table
Row(id, ts) == [id |-> id, timestamp |-> ts]

\* the ids of the rows of the events table
IdsOf(st) == {r.id : r \in st}

PublishEventOpRouteFirst(q, st, ev, ts, dbok) ==
    LET p == ServerPublishOp(q, ev)
    IN  IF dbok
        THEN [res |-> "event", q |-> p.q, stored |-> st \cup {Row(ev.id, ts)},
              routed |-> p.res]
        ELSE [res |-> "error", q |-> p.q, stored |-> st, routed |-> p.res]

\* publish_event on the store and the queue: the inserts and the commit,
\* then router.publish, whose result is not looked at; an error of the
\* store (~dbok) leaves the handler before router.publish
PublishEventOp(q, st, ev, ts, dbok) ==
    IF dbok
    THEN LET p == ServerPublishOp(q, ev)
         IN  [res |-> "event", q |-> p.q, stored |-> st \cup {Row(ev.id, ts)},
              routed |-> p.res]
    ELSE [res |-> "error", q |-> q, stored |-> st, routed |-> "not called"]

\* the POST /events endpoint, called when the clock reads now
PublishEvent(kind, now, dbok) ==
    /\ next_event <= MaxPublish
    /\ LET r == PublishEventOp(event_queue, stored,
                               EventOf(next_event, kind), IsoFormat(now),
                               dbok)
       IN  /\ event_queue' = r.q
           /\ stored' = r.stored
           /\ last' = [NoLast EXCEPT !.op = "publish_event", !.res = r.res]
    /\ next_event' = next_event + 1
    /\ UNCHANGED <<max_queue_size, max_subscribers, subscribers, filters,
                   tasks, processor_task, next_handle, ids_used, rejected,
                   removed, queued_at_stop, connected, starts, dequeued,
                   mf, limiterVars>>

\* insert_event on the events table: the row is written with the id and
\* the timestamp of the caller; an id that is in the table already breaks
\* the primary key and nothing is committed
InsertEventOp(st, id, ts) ==
    IF id \in IdsOf(st)
    THEN [res |-> "error", stored |-> st]
    ELSE [res |-> "None", stored |-> st \cup {Row(id, ts)}]

\* a call of database.insert_event: the router is given nothing. The id
\* is one that was used before or a new one (which no later event gets)
InsertEvent(id, ts) ==
    /\ id <= next_event
    /\ id <= MaxPublish
    /\ LET r == InsertEventOp(stored, id, ts)
       IN  /\ stored' = r.stored
           /\ last' = [NoLast EXCEPT !.op = "insert_event", !.res = r.res]
    /\ next_event' = IF id = next_event THEN next_event + 1 ELSE next_event
    /\ UNCHANGED <<max_queue_size, max_subscribers, subscribers, filters,
                   event_queue, tasks, processor_task,
                   next_handle, ids_used, rejected, removed, queued_at_stop,
                   connected, starts, dequeued, mf, limiterVars>>

\* the query parameter "before" when it is not given or empty
NoBefore == <<>>

\* clear_events and delete_events on the events table: without "before"
\* every row is deleted, with it the rows whose timestamp text sorts
\* before it
ClearEventsOp(st, before) ==
    IF before = NoBefore THEN {}
    ELSE {r \in st : ~TextLess(r.timestamp, before)}

\* the DELETE /events endpoint
ClearEvents(before) ==
    /\ stored' = ClearEventsOp(stored, before)
    /\ last' = [NoLast EXCEPT !.op = "clear_events"]
    /\ UNCHANGED <<max_queue_size, max_subscribers, subscribers, filters,
                   event_queue, tasks, processor_task, next_event,
                   next_handle, ids_used, rejected, removed, queued_at_stop,
                   connected, starts, dequeued, mf, limiterVars>>

\* a call of EventRouter.get_stats
GetStatsCall ==
    /\ last' = [NoLast EXCEPT !.op = "get_stats",
                   !.stats = GetStats(subscribers, event_queue)]
    /\ UNCHANGED <<max_queue_size, max_subscribers, subscribers, filters,
                   event_queue, tasks, processor_task, next_event,
                   next_handle, ids_used, rejected, removed, queued_at_stop,
                   connected, starts, dequeued,
                   mf, stored, limiterVars>>

\* what dict.update would leave of the old filter and the new one
MergeFilter(old, new) ==
    IF new.none THEN old
    ELSE [none |-> FALSE,
          event_types |-> IF HasKey(new, "event_types")
                          THEN new.event_types ELSE old.event_types,
          session_id |-> IF HasKey(new, "session_id")
                         THEN new.session_id ELSE old.session_id,
          user_id |-> IF HasKey(new, "user_id")
                      THEN new.user_id ELSE old.user_id]

SetFilterMerge(filt, id, f) ==
    [keys |-> filt.keys \cup {id},
     val  |-> [filt.val EXCEPT ![id] = MergeFilter(@, f)]]

\* router.filters[subscriber_id] = f
SetFilter(filt, id, f) ==
    [keys |-> filt.keys \cup {id},
     val  |-> [filt.val EXCEPT ![id] = f]]

\* msg.get('filters', {})
MsgGetFilters(msg) == IF msg.has THEN msg.filters ELSE EmptyFilterDict

\* the subscribe handshake of a new connection: the handler draws a fresh
\* subscriber id, builds the filter from the configuration message and
\* writes the two dicts of the router
Handshake(f) ==
    /\ next_handle <= MaxSubscribeCalls
    /\ ids_used < NumIds
    /\ LET id == ids_used + 1
       IN  /\ ids_used' = id
           /\ subscribers' = DictSet(subscribers, id, next_handle)
           /\ filters' = SetFilter(filters, id, f)
           /\ tasks' = Changed(Touch(tasks, id))
           /\ connected' = connected \cup {id}
           /\ last' = [NoLast EXCEPT !.op = "handshake", !.id = id,
                          !.res = "subscribed", !.f = f]
    /\ next_handle' = next_handle + 1
    /\ UNCHANGED <<max_queue_size, max_subscribers, event_queue,
                   processor_task, next_event, rejected, removed,
                   queued_at_stop, starts, dequeued,
                   mf, stored, limiterVars>>

\* the update_filters message of a subscriber connection: the handler of
\* the connection assigns router.filters[subscriber_id]
UpdateFilters(id, f) ==
    /\ id \in connected
    /\ filters' = SetFilter(filters, id, f)
    /\ tasks' = Changed(Touch(tasks, id))
    /\ last' = [NoLast EXCEPT !.op = "update_filters", !.id = id, !.f = f]
    /\ UNCHANGED <<max_queue_size, max_subscribers, subscribers,
                   event_queue, processor_task, next_event, next_handle,
                   ids_used, rejected, removed, queued_at_stop, connected,
                   starts, dequeued,
                   mf, stored, limiterVars>>

\* an update_filters message arrives on an open subscriber connection
UpdateFiltersMsg(id, msg) == UpdateFilters(id, MsgGetFilters(msg))

\* a subscriber connection is closed by its client: the handler of the
\* connection leaves its receive loop and unsubscribes its id
ConnectionClosed(id) ==
    /\ id \in connected
    /\ Unsubscribe(id)

----------------------------------------------------------------------------
(* Actions: the steps of a dispatch loop *)

\* the wait of a loop in queue.get() is over: the queue holds an event
WakeEnabled(t) ==
    /\ tasks[t].pc = "get"
    /\ ~tasks[t].cancel
    /\ event_queue # <<>>

\* a loop is suspended in a send
SendEnabled(t) ==
    /\ tasks[t].pc = "send"
    /\ ~tasks[t].cancel

\* a loop waiting in queue.get() runs when the queue holds an event
LoopWake(t) ==
    /\ WakeEnabled(t)
    /\ LET r == RunFromGet(subscribers, filters, event_queue)
       IN  /\ tasks' = [tasks EXCEPT
                          ![t] = Suspended(subscribers, filters, r)]
           /\ event_queue' = r.queue
           /\ dequeued' = dequeued \o Taken(event_queue, r.queue)
           /\ last' = [NoLast EXCEPT !.op = "wake", !.started = Started(r)]
    /\ UNCHANGED <<max_queue_size, max_subscribers, subscribers, filters,
                   processor_task, next_event, next_handle, ids_used,
                   rejected, removed, queued_at_stop, connected, starts,
                   mf, stored, limiterVars>>

\* the send a loop is suspended in completes (ok) or raises (~ok), and the
\* loop runs on to its next suspension
SendDone(t, ok) ==
    /\ SendEnabled(t)
    /\ LET T == tasks[t]
           disc1 == IF ok THEN T.disc ELSE Append(T.disc, T.cur.k)
           failed1 == IF ok THEN T.failed ELSE T.failed \cup {T.cur}
           a == Advance(subscribers, filters, T.ev, T.it)
           c == IF a.kind = "stop"
                THEN Cleanup(subscribers, filters, disc1)
                ELSE [err |-> FALSE, subs |-> subscribers,
                      filt |-> filters, gone |-> {}]
           r == RunFromGet(c.subs, c.filt, event_queue)
           goneIds == {e.k : e \in c.gone}
       IN  IF a.kind = "item"
           THEN /\ tasks' = [tasks EXCEPT ![t] =
                       [T EXCEPT !.it = a.it, !.cur = a.item,
                                 !.disc = disc1, !.failed = failed1,
                                 !.tried = @ \cup {a.item},
                                 !.sends = @ + 1]]
                /\ last' = [NoLast EXCEPT !.op = "send_done",
                               !.started = {[ev |-> T.ev.id, k |-> a.item.k,
                                             v |-> a.item.v]}]
                /\ UNCHANGED <<subscribers, filters, event_queue, removed,
                               dequeued>>
           ELSE /\ subscribers' = c.subs
                /\ filters' = c.filt
                /\ event_queue' = r.queue
                /\ dequeued' = dequeued \o Taken(event_queue, r.queue)
                /\ removed' = removed \cup c.gone
                /\ tasks' = [u \in TaskIds |->
                       IF u = t THEN Suspended(c.subs, c.filt, r)
                       ELSE IF goneIds = {} THEN tasks[u]
                       ELSE [Changed(tasks)[u] EXCEPT
                               !.whole = {e \in @ : e.k \notin goneIds}]]
                /\ last' = [NoLast EXCEPT !.op = "send_done",
                               !.started = Started(r),
                               !.fin = {[ev |-> T.ev.id,
                                         outcome |->
                                           IF a.kind = "stop" /\ ~c.err
                                           THEN "routed" ELSE "error",
                                         failed |-> failed1,
                                         began |-> T.began,
                                         whole |-> T.whole,
                                         tried |-> T.tried,
                                         sends |-> T.sends,
                                         stable |-> T.stable]}]
    /\ UNCHANGED <<max_queue_size, max_subscribers, processor_task,
                   next_event, next_handle, ids_used, rejected,
                   queued_at_stop, connected, starts, mf, stored,
                   limiterVars>>

LoopCancelledOnlyWaiting(t) ==
    /\ tasks[t].cancel
    /\ tasks[t].pc = "get"
    /\ tasks' = [tasks EXCEPT ![t] = [NoTask EXCEPT !.pc = "done"]]
    /\ last' = [NoLast EXCEPT !.op = "cancelled"]
    /\ UNCHANGED <<max_queue_size, max_subscribers, subscribers, filters,
                   event_queue, processor_task, next_event, next_handle,
                   ids_used, rejected, removed, queued_at_stop, connected,
                   starts, dequeued,
                   mf, stored, limiterVars>>

\* a cancelled loop gets CancelledError where it is suspended and ends
LoopCancelled(t) ==
    /\ tasks[t].cancel
    /\ tasks[t].pc \in {"get", "send"}
    /\ tasks' = [tasks EXCEPT ![t] = [NoTask EXCEPT !.pc = "done"]]
    /\ last' = [NoLast EXCEPT !.op = "cancelled"]
    /\ UNCHANGED <<max_queue_size, max_subscribers, subscribers, filters,
                   event_queue, processor_task, next_event, next_handle,
                   ids_used, rejected, removed, queued_at_stop, connected,
                   starts, dequeued,
                   mf, stored, limiterVars>>

\* a router whose start() is called once
Next ==
    \/ Start
    \/ Stop
    \/ \E id \in Ids, f \in SubFilters : SubscribeNew(id, f)
    \/ \E id \in Ids : Unsubscribe(id)
    \/ \E kind \in EventKinds : Publish(kind)
    \/ \E t \in TaskIds : LoopWake(t)
    \/ \E t \in TaskIds, ok \in BOOLEAN : SendDone(t, ok)
    \/ \E t \in TaskIds : LoopCancelled(t)

Spec == Init /\ [][Next]_vars

----------------------------------------------------------------------------
(* _matches_filter on its own: every event against every filter *)

InitMatch ==
    /\ max_queue_size = 1
    /\ max_subscribers = 1
    /\ subscribers = EmptyDict
    /\ filters = EmptyFilters
    /\ event_queue = <<>>
    /\ tasks = [t \in TaskIds |-> NoTask]
    /\ processor_task = 0
    /\ next_event = 1
    /\ next_handle = 1
    /\ ids_used = 0
    /\ rejected = {}
    /\ removed = {}
    /\ queued_at_stop = {}
    /\ connected = {}
    /\ starts = "none"
    /\ dequeued = <<>>
    /\ last = NoLast
    /\ mf \in [pc : {"call"}, ev : {EventOf(0, e) : e \in Events},
               f : Filters, res : {FALSE}]
    /\ stored = {}
    /\ IdleLimiter

\* the call returns
MatchReturn ==
    /\ mf.pc = "call"
    /\ mf' = [mf EXCEPT !.pc = "ret", !.res = MatchesFilter(mf.ev, mf.f)]
    /\ UNCHANGED <<routerVars, stored, limiterVars>>

SpecMatch == InitMatch /\ [][MatchReturn]_vars

----------------------------------------------------------------------------
(* A router on which start() is called again, after stop() or without it *)

\* EventRouter.__init__ with a given queue capacity and subscriber limit
InitWith(q, m) ==
    /\ max_queue_size = q
    /\ max_subscribers = m
    /\ subscribers = EmptyDict
    /\ filters = EmptyFilters
    /\ event_queue = <<>>
    /\ tasks = [t \in TaskIds |-> NoTask]
    /\ processor_task = 0
    /\ next_event = 1
    /\ next_handle = 1
    /\ ids_used = 0
    /\ rejected = {}
    /\ removed = {}
    /\ queued_at_stop = {}
    /\ connected = {}
    /\ starts = "none"
    /\ dequeued = <<>>
    /\ last = NoLast
    /\ mf = NoCall
    /\ stored = {}
    /\ IdleLimiter

\* a queue that takes every event, one subscriber
InitStarts == InitWith(MaxPublish, 1)

\* EventRouter.subscribe, called a few times only
SubscribeFew(id, f) ==
    /\ next_handle <= MaxSubscribeStarts
    /\ SubscribeNew(id, f)

NextStarts ==
    \/ Start
    \/ Restart
    \/ StartTwice
    \/ Stop
    \/ \E id \in Ids, f \in SubFilters : SubscribeFew(id, f)
    \/ \E id \in Ids : Unsubscribe(id)
    \/ \E kind \in EventKinds : Publish(kind)
    \/ \E t \in TaskIds : LoopWake(t)
    \/ \E t \in TaskIds, ok \in BOOLEAN : SendDone(t, ok)
    \/ \E t \in TaskIds : LoopCancelled(t)

SpecStarts == InitStarts /\ [][NextStarts]_vars

----------------------------------------------------------------------------
(* A router under the scheduling of the asyncio event loop: a loop whose  *)
(* wait is over runs, a send that was started comes to its end and a      *)
(* cancelled loop is resumed with CancelledError.  This is weak fairness  *)
(* of the three loop steps; for LoopWake and SendDone it is written out,  *)
(* WF_vars(A) being []<>~ENABLED <<A>>_vars \/ []<><<A>>_vars, with the    *)
(* guard of the step for its ENABLED (each of the two steps changes the   *)
(* state whenever its guard holds).                                       *)

InitFair == InitWith(MaxQueueBound, MaxSubsBound)

Fairness ==
    \A t \in TaskIds :
        /\ \/ []<>(~WakeEnabled(t))
           \/ []<><<LoopWake(t)>>_vars
        /\ \/ []<>(~SendEnabled(t))
           \/ []<><<\E ok \in BOOLEAN : SendDone(t, ok)>>_vars
        /\ WF_vars(LoopCancelled(t))

FairSpec == InitFair /\ [][Next]_vars /\ Fairness

----------------------------------------------------------------------------
(* The router of the server with all its callers *)

\* EventRouter.__init__ of the server: asyncio.Queue() has maxsize 0, and
\* the configured MAX_SUBSCRIBERS is no attribute of this router
InitServer ==
    /\ max_queue_size = 0
    /\ max_subscribers \in 0..MaxSubsBound
    /\ subscribers = EmptyDict
    /\ filters = EmptyFilters
    /\ event_queue = <<>>
    /\ tasks = [t \in TaskIds |-> NoTask]
    /\ processor_task = 0
    /\ next_event = 1
    /\ next_handle = 1
    /\ ids_used = 0
    /\ rejected = {}
    /\ removed = {}
    /\ queued_at_stop = {}
    /\ connected = {}
    /\ starts = "none"
    /\ dequeued = <<>>
    /\ last = NoLast
    /\ mf = NoCall
    /\ stored = {}
    /\ IdleLimiter

NextServer ==
    \/ Start
    \/ Stop
    \/ \E id \in Ids, f \in SubFilters \cup {NoneFilter} :
          ServerSubscribe(id, f)
    \/ \E id \in Ids : Unsubscribe(id)
    \/ \E kind \in EventKinds : ServerPublish(kind)
    \/ \E kind \in EventKinds, now \in Clock, dbok \in BOOLEAN :
          PublishEvent(kind, now, dbok)
    \/ \E id \in Ids, f \in SubFilters : UpdateFilters(id, f)
    \/ \E f \in SubFilters : Handshake(f)
    \/ \E t \in TaskIds : LoopWake(t)
    \/ \E t \in TaskIds, ok \in BOOLEAN : SendDone(t, ok)
    \/ \E t \in TaskIds : LoopCancelled(t)

SpecServer == InitServer /\ [][NextServer]_vars

----------------------------------------------------------------------------
(* The handlers of the server on the router: subscriber connections that  *)
(* register by the handshake, update their filter and close, the          *)
(* POST /events endpoint and the statistics                               *)

\* EventRouter.__init__ of the server, with the configured MAX_SUBSCRIBERS
InitApp == InitWith(0, MaxSubsBound)

\* the reading of the clock at the publish calls of this server: none of
\* its steps reads a stored timestamp
OneReading == [sec |-> 0, micro |-> 5]

\* the POST /events endpoint, called a few times only
PublishEventFew(kind, now, dbok) ==
    /\ next_event <= MaxAppPublish
    /\ PublishEvent(kind, now, dbok)

\* the subscriber connections of a running server
NextApp ==
    \/ Start
    \/ \E f \in SubFilters : Handshake(f)
    \/ \E id \in Ids, msg \in UpdateMsgs : UpdateFiltersMsg(id, msg)
    \/ \E id \in Ids : ConnectionClosed(id)
    \/ \E kind \in EventKinds, dbok \in BOOLEAN :
          PublishEventFew(kind, OneReading, dbok)
    \/ GetStatsCall
    \/ \E t \in TaskIds : LoopWake(t)
    \/ \E t \in TaskIds, ok \in BOOLEAN : SendDone(t, ok)

SpecApp == InitApp /\ [][NextApp]_vars

\* the events table of a server from its start to its stop, with all the
\* calls that write it and the loop that takes what publish_event queued
\* (no subscriber is connected)
NextEvents ==
    \/ Start
    \/ Stop
    \/ \E kind \in EventKinds, now \in Clock, dbok \in BOOLEAN :
          PublishEvent(kind, now, dbok)
    \/ \E id \in 1..MaxPublish, ts \in Texts : InsertEvent(id, ts)
    \/ \E before \in {NoBefore} \cup Texts : ClearEvents(before)
    \/ \E t \in TaskIds : LoopWake(t)
    \/ \E t \in TaskIds : LoopCancelled(t)

SpecEvents == InitApp /\ [][NextEvents]_vars

----------------------------------------------------------------------------
(* A router whose callers subscribe again with a websocket they passed   *)
(* before, also while the loop is suspended in a send                    *)

\* a queue that takes the event, room for every connection
InitResub == InitWith(1, MaxSubscribeCalls)

\* EventRouter.publish, called once
PublishOnce(kind) ==
    /\ next_event = 1
    /\ Publish(kind)

\* EventRouter.subscribe called by the connection that holds the id: each
\* connection registers its websocket under its own id, with the filter {},
\* any number of times
SubscribeAgain(id) ==
    /\ id \in Handles
    /\ Subscribe(id, id, EmptyFilterDict)

NextResub ==
    \/ Start
    \/ \E id \in Ids : SubscribeAgain(id)
    \/ \E id \in Ids : Unsubscribe(id)
    \/ \E kind \in EventKinds : PublishOnce(kind)
    \/ \E t \in TaskIds : LoopWake(t)
    \/ \E t \in TaskIds, ok \in BOOLEAN : SendDone(t, ok)

SpecResub == InitResub /\ [][NextResub]_vars

----------------------------------------------------------------------------
(* A router that is given its first event before anyone subscribes *)

InitLate ==
    /\ max_queue_size \in 1..MaxQueueBound
    /\ max_subscribers \in 0..MaxSubsBound
    /\ subscribers = EmptyDict
    /\ filters = EmptyFilters
    /\ event_queue \in {<<EventOf(1, kind)>> : kind \in EventKinds}
    /\ tasks = [t \in TaskIds |-> NoTask]
    /\ processor_task = 0
    /\ next_event = 2
    /\ next_handle = 1
    /\ ids_used = 0
    /\ rejected = {}
    /\ removed = {}
    /\ queued_at_stop = {}
    /\ connected = {}
    /\ starts = "none"
    /\ dequeued = <<>>
    /\ last = [NoLast EXCEPT !.op = "publish", !.res = "True"]
    /\ mf = NoCall
    /\ stored = {}
    /\ IdleLimiter

SpecLate == InitLate /\ [][Next]_vars

----------------------------------------------------------------------------
(* The limiter of websocket connections per client address *)

\* defaultdict.__getitem__: a key that is missing is inserted with int()
ConnGet(c, ip) ==
    [c |-> [keys |-> c.keys \cup {ip}, val |-> c.val], v |-> c.val[ip]]

TryConnectOpOffByOne(c, max, ip) ==
    LET g == ConnGet(c, ip)
    IN  IF g.v > max
        THEN [res |-> FALSE, c |-> g.c]
        ELSE [res |-> TRUE, c |-> [g.c EXCEPT !.val[ip] = @ + 1]]

TryConnectOpAnyIpFull(c, max, ip) ==
    LET g == ConnGet(c, ip)
    IN  IF \E i \in Ips : g.c.val[i] >= max
        THEN [res |-> FALSE, c |-> g.c]
        ELSE [res |-> TRUE, c |-> [g.c EXCEPT !.val[ip] = @ + 1]]

\* WebSocketConnectionLimiter.try_connect on the table
TryConnectOp(c, max, ip) ==
    LET g == ConnGet(c, ip)
    IN  IF g.v >= max
        THEN [res |-> FALSE, c |-> g.c]
        ELSE [res |-> TRUE, c |-> [g.c EXCEPT !.val[ip] = @ + 1]]

DisconnectOpDropsAll(c, ip) ==
    [keys |-> c.keys \ {ip}, val |-> [c.val EXCEPT ![ip] = 0]]

\* WebSocketConnectionLimiter.disconnect on the table
DisconnectOp(c, ip) ==
    LET g == ConnGet(c, ip)
        v == IF g.v - 1 > 0 THEN g.v - 1 ELSE 0
        c1 == [g.c EXCEPT !.val[ip] = v]
    IN  IF c1.val[ip] = 0
        THEN [keys |-> c1.keys \ {ip}, val |-> c1.val]
        ELSE c1

\* WebSocketConnectionLimiter.__init__
InitLimiter ==
    /\ max_queue_size = 1
    /\ max_subscribers = 1
    /\ subscribers = EmptyDict
    /\ filters = EmptyFilters
    /\ event_queue = <<>>
    /\ tasks = [t \in TaskIds |-> NoTask]
    /\ processor_task = 0
    /\ next_event = 1
    /\ next_handle = 1
    /\ ids_used = 0
    /\ rejected = {}
    /\ removed = {}
    /\ queued_at_stop = {}
    /\ connected = {}
    /\ starts = "none"
    /\ dequeued = <<>>
    /\ last = NoLast
    /\ mf = NoCall
    /\ stored = {}
    /\ max_per_ip \in 0..MaxPerIpBound
    /\ connections = EmptyConnections
    /\ lim_last = NoLimCall
    /\ lim_prev = NoLimCall

\* a call of try_connect
TryConnect(ip) ==
    /\ LET r == TryConnectOp(connections, max_per_ip, ip)
       IN  /\ connections' = r.c
           /\ lim_last' = [op |-> "try_connect", ip |-> ip, res |-> r.res,
                           before |-> connections.val[ip]]
    /\ lim_prev' = lim_last
    /\ UNCHANGED <<routerVars, mf, stored, max_per_ip>>

\* a call of disconnect
Disconnect(ip) ==
    /\ connections' = DisconnectOp(connections, ip)
    /\ lim_last' = [op |-> "disconnect", ip |-> ip, res |-> FALSE,
                    before |-> connections.val[ip]]
    /\ lim_prev' = lim_last
    /\ UNCHANGED <<routerVars, mf, stored, max_per_ip>>

NextLimiter ==
    \/ \E ip \in Ips : TryConnect(ip)
    \/ \E ip \in Ips : Disconnect(ip)

SpecLimiter == InitLimiter /\ [][NextLimiter]_vars

----------------------------------------------------------------------------
(* Properties *)

\* a subscription is registered: its id maps to its handle
Registered(e) == e \in DictItems(subscribers)

\* the dimensions of a filter
FilterDims == {"event_types", "session_id", "user_id"}

\* the dimension is present in the filter with a non-empty value
DimSet(f, dim) ==
    CASE dim = "event_types" ->
            f.event_types.kind = "list" /\ f.event_types.v # {}
      [] dim = "session_id" -> f.session_id \notin {AbsentStr, NoneStr, ""}
      [] dim = "user_id" -> f.user_id \notin {AbsentStr, NoneStr, ""}

\* the event satisfies the dimension of the filter
DimSatisfied(e, f, dim) ==
    CASE dim = "event_types" -> e.event_type \in f.event_types.v
      [] dim = "session_id" -> e.session_id = f.session_id
      [] dim = "user_id" -> e.user_id = f.user_id

\* C1: a subscribe call made when the number of registered subscribers is
\* equal to or above max_subscribers returns False and leaves subscribers
\* and filters unchanged; with max_subscribers = 0 every subscribe is
\* rejected.
C1_SubscribeAtCapacityRejected ==
    [][(next_handle' = next_handle + 1) =>
          /\ (DictLen(subscribers) >= max_subscribers =>
                /\ last'.res = "False"
                /\ subscribers' = subscribers
                /\ filters' = filters)
          /\ (max_subscribers = 0 => last'.res = "False")]_vars

\* a subscribe was rejected by a router that is full of subscribers
C1_Witness ==
    /\ last.op = "subscribe"
    /\ last.res = "False"
    /\ max_subscribers >= 1
    /\ DictLen(subscribers) = max_subscribers

\* C2: in every reachable state the number of registered subscribers is at
\* most max_subscribers, whatever subscribe and unsubscribe calls and loop
\* steps interleave.
C2_CountWithinMax == DictLen(subscribers) <= max_subscribers

\* the registry is full while a dispatch loop is suspended in a delivery and
\* a further subscribe has just been turned away
C2_Witness ==
    /\ DictLen(subscribers) = max_subscribers
    /\ max_subscribers >= 1
    /\ \E t \in TaskIds : tasks[t].pc = "send"
    /\ last.op = "subscribe"
    /\ last.res = "False"

\* C3: a publish call made when the queue already holds max_queue_size
\* events returns False, and no send is ever started for a rejected event.
C3_PublishAtCapacityRejected ==
    [][/\ (next_event' = next_event + 1
            /\ Len(event_queue) = max_queue_size) => last'.res = "False"
       /\ \A s \in last'.started : s.ev \notin rejected']_vars

\* C4: in every reachable state the number of queued events is at most the
\* capacity the router was constructed with, for every capacity value.
C4_QueueWithinCapacity == Len(event_queue) <= max_queue_size

\* C5: a publish that is rejected because the queue is full leaves the queue
\* exactly as it was (same events, same order, none evicted).
C5_RejectedPublishKeepsQueue ==
    [][(next_event' = next_event + 1 /\ last'.res = "False") =>
          event_queue' = event_queue]_vars

\* a publish was rejected by a full queue that still holds its events
C5_Witness ==
    /\ last.op = "publish"
    /\ last.res = "False"
    /\ max_queue_size >= 1
    /\ Len(event_queue) = max_queue_size

\* C6: _matches_filter(E, F) is true iff every dimension present in F with
\* a non-empty value is satisfied by E; a None or empty filter matches every
\* event; an event whose session_id or user_id is None does not match a
\* filter that sets that dimension.
C6_MatchesIffAllSetDimensionsSatisfied ==
    mf.pc = "ret" =>
        /\ mf.res = (\A dim \in FilterDims :
                        DimSet(mf.f, dim) => DimSatisfied(mf.ev, mf.f, dim))
        /\ ((mf.f.none \/ \A dim \in FilterDims : ~HasKey(mf.f, dim))
                => mf.res)
        /\ (DimSet(mf.f, "session_id") /\ mf.ev.session_id = NoneStr
                => ~mf.res)
        /\ (DimSet(mf.f, "user_id") /\ mf.ev.user_id = NoneStr => ~mf.res)

\* a filter that sets all three dimensions was matched by an event
C6_Witness ==
    /\ mf.pc = "ret"
    /\ mf.res
    /\ \A dim \in FilterDims : DimSet(mf.f, dim)

\* C7: after unsubscribe(id) has returned, and as long as id is not
\* subscribed again, no dispatch loop starts a send to the handle that was
\* registered under id.
C7_NoSendAfterUnsubscribe ==
    \A s \in last.started : [k |-> s.k, v |-> s.v] \notin removed

\* a subscription that was registered when a dispatch began was unsubscribed
\* while the loop was suspended in that dispatch, and the loop has gone on
\* to start a send to another subscriber
C7_Witness ==
    /\ last.op = "send_done"
    /\ last.started # {}
    /\ \E f \in last.fin : \E e \in f.began \ f.whole : e \in removed

\* C8: unsubscribe(id) for an id that is not registered raises no error and
\* leaves subscribers, filters and the queue unchanged.
C8_UnsubscribeUnregisteredNoOp ==
    [][(last'.op = "unsubscribe" /\ ~DictHas(subscribers, last'.id)) =>
          /\ last'.res = "None"
          /\ subscribers' = subscribers
          /\ filters' = filters
          /\ event_queue' = event_queue]_vars

\* unsubscribe was called a second time for an id that it had removed
C8_Witness ==
    /\ last.op = "unsubscribe"
    /\ last.h = 0
    /\ last.res = "None"
    /\ \E e \in removed : e.k = last.id

\* C9: when a send to a subscriber fails during the dispatch of an event,
\* that subscriber is not registered, and not counted in active_subscribers,
\* once the loop has finished processing that event.
C9_FailedSubscriberRemoved ==
    \A f \in last.fin :
        /\ \A e \in f.failed : ~Registered(e)
        /\ GetStats(subscribers, event_queue).active_subscribers =
              Cardinality(DictItems(subscribers) \ f.failed)

\* C10: a subscribe or unsubscribe performed while the loop is suspended in
\* a delivery does not make the dispatch of that event fail, and every
\* subscriber registered with a matching filter for the whole dispatch gets
\* its send attempt.
C10_DispatchOnConsistentView ==
    \A f \in last.fin :
        /\ f.outcome = "routed"
        /\ f.whole \subseteq f.tried

\* C11: a send failure for one subscriber does not stop the dispatch of
\* the event and does not leave the loop: every other subscriber registered
\* with a matching filter still gets its send attempt for that event.
C11_SendFailureKeepsDispatching ==
    \A f \in last.fin : f.failed # {} => f.whole \subseteq f.tried

\* C12: an error raised while an event is processed (other than the
\* cancellation) does not end the dispatch loop: the loop goes on with the
\* next queued event, or waits when the queue is empty, and a loop ends
\* only after stop() has cancelled it.
C12_ErrorDoesNotEndLoop ==
    [][\A t \in TaskIds :
          /\ (/\ tasks[t].pc = "send"
              /\ ~tasks[t].cancel
              /\ ~tasks'[t].cancel
              /\ \E f \in last'.fin :
                    f.outcome = "error" /\ f.ev = tasks[t].ev.id)
                => /\ tasks'[t].pc \in {"get", "send"}
                   /\ (tasks'[t].pc = "get" => event_queue' = <<>>)
                   /\ (tasks'[t].pc = "send"
                          => tasks'[t].ev.id > tasks[t].ev.id)
          /\ (tasks[t].pc # "done" /\ tasks'[t].pc = "done")
                => tasks[t].cancel]_vars

\* the dispatch of an event ended in an error and the loop has started a
\* send of the next event
C12_Witness ==
    \E f \in last.fin :
        /\ f.outcome = "error"
        /\ \E t \in TaskIds :
              /\ tasks[t].pc = "send"
              /\ ~tasks[t].cancel
              /\ tasks[t].ev.id > f.ev

\* the caller has called start() again with no stop() since the last start
CalledTwice == starts = "twice"

\* a send that begins is the only send of the router in flight on its
\* handle, and its event was enqueued before every event still queued
OrderKept ==
    \A s \in last.started :
        /\ \A t \in TaskIds :
              (tasks[t].pc = "send" /\ ~tasks[t].cancel
                 /\ tasks[t].cur.v = s.v) => tasks[t].ev.id = s.ev
        /\ \A i \in 1..Len(event_queue) : s.ev < event_queue[i].id

\* C13 as stated: delivery to a subscriber keeps the queue order (the send
\* of an earlier event is over before the send of a later event begins,
\* and events are sent in the order they were enqueued) for every sequence
\* of start, stop, publish, subscribe and unsubscribe calls.
C13_OrderForEverySequence == OrderKept

\* C13, amended: delivery to a subscriber keeps the queue order for every
\* sequence of calls in which start() is not called again without a stop()
\* since the last start().
C13_OrderUnlessStartedTwice == ~CalledTwice => OrderKept

\* a dispatch has ended and the loop has begun the send of a later event
\* to a handle that the ended dispatch had sent to
C13_Witness ==
    /\ ~CalledTwice
    /\ \E f \in last.fin, s \in last.started :
          /\ s.ev > f.ev
          /\ \E e \in f.tried : e.v = s.v

\* no two dispatch loops are suspended in a send to the same handle
OneSendPerHandle ==
    \A t, u \in TaskIds :
        (/\ t # u
         /\ tasks[t].pc = "send" /\ ~tasks[t].cancel
         /\ tasks[u].pc = "send" /\ ~tasks[u].cancel)
            => tasks[t].cur.v # tasks[u].cur.v

\* C14 as stated: at most one send of the router is in flight on a handle,
\* for every sequence of start, stop and publish calls.
C14_OneSendForEverySequence == OneSendPerHandle

\* C14, amended: at most one send of the router is in flight on a handle,
\* for every sequence of calls in which start() is not called again
\* without a stop() since the last start().
C14_OneSendUnlessStartedTwice == ~CalledTwice => OneSendPerHandle

\* after a stop() and a restart, the new loop is suspended in a send while
\* the cancelled loop has not ended yet
C14_Witness ==
    /\ ~CalledTwice
    /\ processor_task # 0
    /\ tasks[processor_task].pc = "send"
    /\ ~tasks[processor_task].cancel
    /\ \E u \in TaskIds : tasks[u].cancel /\ tasks[u].pc = "send"

\* C15: stop() on a router whose start() was never called raises no error
\* and changes nothing: subscribers, filters, the queue and the absent
\* processor task are as before.
C15_StopBeforeStartNoOp ==
    [][(last'.op = "stop" /\ processor_task = 0) =>
          /\ last'.res = "None"
          /\ subscribers' = subscribers
          /\ filters' = filters
          /\ event_queue' = event_queue
          /\ tasks' = tasks
          /\ processor_task' = 0]_vars

\* stop() was called on a never started router that holds a subscriber and
\* a queued event
C15_Witness ==
    /\ last.op = "stop"
    /\ last.res = "None"
    /\ processor_task = 0
    /\ DictLen(subscribers) > 0
    /\ event_queue # <<>>

\* C16: after stop() on a started router the dispatch loop eventually
\* ends, whether it was waiting for the next event or suspended in a
\* delivery when it was cancelled.
C16_StopEndsLoop ==
    \A t \in TaskIds :
        (tasks[t].cancel /\ tasks[t].pc \in {"get", "send"})
            ~> (tasks[t].pc = "done")

\* a loop was cancelled while it was suspended in a delivery
C16_Witness ==
    \E t \in TaskIds : tasks[t].cancel /\ tasks[t].pc = "send"

\* C17: an event that is in the queue when stop() cancels the loop is
\* dropped: no send of it is ever started afterwards, whatever calls follow
\* (stated here for the callers that never call start() twice without a
\* stop() in between).
C17_QueuedAtStopNeverSent ==
    ~CalledTwice => \A s \in last.started : s.ev \notin queued_at_stop

\* the event e is waiting in the queue
InQueue(e) == \E i \in 1..Len(event_queue) : event_queue[i].id = e

\* the dispatch loop that start() created is running: stop() has not
\* cancelled it
Running == processor_task # 0 /\ Live(processor_task)

\* C18: while the dispatch loop runs and stop() is not called, every event
\* that publish accepted is eventually dequeued and dispatched, provided
\* every send comes to its end.
C18_AcceptedEventDispatched ==
    \A e \in 1..MaxPublish :
        (InQueue(e) /\ Running) ~> (~InQueue(e) \/ ~Running)

\* an event that was accepted while the loop was busy has been dequeued
\* and is being sent
C18_Witness ==
    /\ Running
    /\ tasks[processor_task].pc = "send"
    /\ tasks[processor_task].ev.id > 1
    /\ tasks[processor_task].ev.id \notin rejected

\* C19: when the registry does not change during the dispatch of an event,
\* the dispatch makes exactly one send attempt to every subscriber
\* registered with a matching filter and none to any other subscriber.
C19_StableDispatchSendsOncePerMatch ==
    \A f \in last.fin :
        f.stable => /\ f.outcome = "routed"
                    /\ f.tried = f.began
                    /\ f.sends = Cardinality(f.began)

\* a dispatch has ended with no change of the registry, with a subscriber
\* that matched and one that did not
C19_Witness ==
    \E f \in last.fin :
        /\ f.stable
        /\ f.failed = {}
        /\ f.began # {}
        /\ DictLen(subscribers) > Cardinality(f.began)

\* C20: updating the filter of an id that is not registered adds no entry
\* to filters or subscribers and changes no filter.
C20_UpdateUnregisteredNoOp ==
    [][(last'.op = "update_filters" /\ ~DictHas(subscribers, last'.id)) =>
          /\ filters' = filters
          /\ subscribers' = subscribers]_vars

\* the event with a given id, as it was published
Published(i) == CHOOSE e \in {EventOf(i, kind) : kind \in EventKinds} : TRUE

\* C21: a filter update for a registered subscriber replaces its filter
\* wholesale: the filter of the subscriber is then exactly the filter of the
\* message, with nothing of the old one, no other subscriber's filter
\* changes, and every send a dispatch starts goes to a subscriber whose
\* filter, as it is at that moment, matches the event.
C21_UpdateReplacesFilter ==
    [][/\ (last'.op = "update_filters" /\ DictHas(subscribers, last'.id)) =>
            /\ filters'.val[last'.id] = last'.f
            /\ filters'.keys = filters.keys
            /\ \A i \in Ids \ {last'.id} : filters'.val[i] = filters.val[i]
            /\ subscribers' = subscribers
       /\ \A s \in last'.started :
            /\ s.k \in filters'.keys
            /\ MatchesFilter(Published(s.ev), filters'.val[s.k])]_vars

\* a dispatch sends an event to a subscriber whose filter is one that only
\* an update sets, while another subscriber keeps a filter that does not
\* match
C21_Witness ==
    \E s \in last.started :
        /\ filters.val[s.k] \in UpdateValues \ SubFilters
        /\ \E i \in DictKeys(subscribers) \ {s.k} :
              /\ i \in filters.keys
              /\ ~MatchesFilter(Published(s.ev), filters.val[i])

\* C22: the subscribe handshake registers a connection only through the
\* capacity check of the router: a handshake on a registry that holds
\* max_subscribers subscribers is answered with an error and adds nothing to
\* subscribers or filters.
C22_HandshakeAtCapacityRejected ==
    [][(/\ last'.op = "handshake"
        /\ AtCapacity(DictLen(subscribers), max_subscribers)) =>
          /\ last'.res = "error"
          /\ subscribers' = subscribers
          /\ filters' = filters]_vars

\* C23: publish never suspends: whatever the queue holds and wherever the
\* dispatch loop is, a call of publish is over in one step of the caller,
\* with True or False, and the caller is not left waiting for room in the
\* queue.
C23_PublishNeverSuspends ==
    [][last'.op = "publish" =>
          /\ last'.res \in {"True", "False"}
          /\ last'.res = "True" <=>
                event_queue' = Append(event_queue, Published(next_event))
          /\ last'.res = "False" => event_queue' = event_queue
          /\ tasks' = tasks]_vars

\* publish has returned False on a full queue while the loop, whose wait
\* for an event is over, has not run yet
C23_Witness ==
    /\ last.op = "publish"
    /\ last.res = "False"
    /\ max_queue_size >= 1
    /\ Len(event_queue) = max_queue_size
    /\ processor_task # 0
    /\ tasks[processor_task].pc = "get"
    /\ ~tasks[processor_task].cancel

\* C24: get_stats changes nothing of the router and is exact when it is
\* called: active_subscribers is the number of entries of subscribers,
\* queue_size the number of queued events, and both are 0 on a router that
\* was just constructed.
C24_GetStatsExactReadOnly ==
    [][last'.op = "get_stats" =>
          /\ last'.stats.active_subscribers =
                Cardinality(DictKeys(subscribers))
          /\ last'.stats.queue_size = Len(event_queue)
          /\ last.op = "init" =>
                last'.stats = [active_subscribers |-> 0, queue_size |-> 0]
          /\ UNCHANGED <<max_queue_size, max_subscribers, subscribers,
                         filters, event_queue, tasks, processor_task>>]_vars

\* get_stats has answered on a router with a subscriber, a queued event and
\* an entry of subscribers that was removed
C24_Witness ==
    /\ last.op = "get_stats"
    /\ last.stats.active_subscribers >= 1
    /\ last.stats.queue_size >= 1
    /\ Len(subscribers.entries) > DictLen(subscribers)

\* C25: stop() leaves the registry as it is: no subscriber is removed, no
\* filter changes and no connection is closed.
C25_StopKeepsRegistry ==
    [][last'.op = "stop" =>
          /\ subscribers' = subscribers
          /\ filters' = filters
          /\ connected' = connected]_vars

\* stop() has cancelled the loop of a router that has a subscriber
C25_Witness ==
    /\ last.op = "stop"
    /\ DictLen(subscribers) >= 1
    /\ connected # {}
    /\ processor_task # 0
    /\ tasks[processor_task].cancel

\* C26: the publish endpoint stores the event before it calls publish of
\* the router: when the router is given the event, the event is in the
\* store, and when the store fails the router is not given it; the endpoint
\* returns the stored event whatever the queue holds, and no call of it is
\* answered with an error because of the queue.
C26_StoredBeforeRouted ==
    [][last'.op = "publish_event" =>
          /\ event_queue' # event_queue => next_event \in IdsOf(stored')
          /\ next_event \in IdsOf(stored') <=> last'.res = "event"
          /\ last'.res = "event" =>
                event_queue' = Append(event_queue, Published(next_event))
          /\ last'.res # "event" =>
                (event_queue' = event_queue /\ stored' = stored)]_vars

\* the endpoint has returned the event it stored and queued while an
\* earlier event was still in the queue
C26_Witness ==
    /\ last.op = "publish_event"
    /\ last.res = "event"
    /\ (next_event - 1) \in IdsOf(stored)
    /\ Len(event_queue) >= 2
    /\ event_queue[Len(event_queue)].id = next_event - 1

\* C27: matching uses the registry as it is when the event is dispatched:
\* a subscriber that subscribed after the event was published, and that is
\* registered with a matching filter from the moment the event is dequeued
\* to the end of its dispatch, gets a send attempt for it.
C27_LateSubscriberOffered ==
    \A f \in last.fin : f.ev = 1 => f.whole \subseteq f.tried

\* the count the limiter keeps for an ip (0 when it has no entry)
CountOf(ip) == IF ip \in connections.keys THEN connections.val[ip] ELSE 0

\* C28: the count of an ip never exceeds max_per_ip; try_connect on an ip
\* whose count is at max_per_ip returns False and leaves the count as it
\* was; try_connect below the limit returns True and raises the count by
\* exactly one.
C28_CountWithinLimit ==
    /\ \A ip \in Ips : CountOf(ip) <= max_per_ip
    /\ lim_last.op = "try_connect" =>
          IF lim_last.before >= max_per_ip
          THEN ~lim_last.res /\ CountOf(lim_last.ip) = lim_last.before
          ELSE lim_last.res /\ CountOf(lim_last.ip) = lim_last.before + 1

\* try_connect has returned False for an ip that holds max_per_ip
\* connections
C28_Witness ==
    /\ lim_last.op = "try_connect"
    /\ ~lim_last.res
    /\ max_per_ip >= 1
    /\ CountOf(lim_last.ip) = max_per_ip
    /\ lim_prev.op = "try_connect"
    /\ lim_prev.res

\* C29: disconnect frees exactly one slot: after a successful try_connect
\* of an ip and a disconnect of it the count of the ip is what it was before
\* the two calls, and a try_connect on an ip that held max_per_ip
\* connections succeeds after one disconnect.
C29_DisconnectFreesOneSlot ==
    /\ (/\ lim_last.op = "disconnect"
        /\ lim_prev.op = "try_connect"
        /\ lim_prev.res
        /\ lim_prev.ip = lim_last.ip) =>
            CountOf(lim_last.ip) = lim_prev.before
    /\ (/\ lim_last.op = "try_connect"
        /\ lim_prev.op = "disconnect"
        /\ lim_prev.ip = lim_last.ip
        /\ lim_prev.before >= 1
        /\ lim_prev.before = max_per_ip) => lim_last.res

\* a disconnect has followed a successful try_connect of an ip that had a
\* connection already
C29_Witness ==
    /\ lim_last.op = "disconnect"
    /\ lim_prev.op = "try_connect"
    /\ lim_prev.res
    /\ lim_prev.ip = lim_last.ip
    /\ lim_prev.before >= 1
    /\ CountOf(lim_last.ip) = lim_prev.before

\* C30: after every call the connection table holds no ip with a count of
\* zero or below, and a disconnect of an ip with no connections leaves no
\* entry for it.
C30_NoZeroCounts ==
    /\ \A ip \in connections.keys : connections.val[ip] >= 1
    /\ (lim_last.op = "disconnect" /\ lim_last.before = 0) =>
          lim_last.ip \notin connections.keys

\* C31: the ips are independent in the limiter: a try_connect or a
\* disconnect of one ip leaves the count of every other ip as it was, and
\* try_connect of an ip returns False only when the count of that ip itself
\* is at max_per_ip, whatever the counts of the other ips are.
C31_IpsIndependent ==
    [][/\ \A ip \in Ips \ {lim_last'.ip} :
              /\ (ip \in connections'.keys) = (ip \in connections.keys)
              /\ connections'.val[ip] = connections.val[ip]
       /\ lim_last'.op = "try_connect" =>
              (lim_last'.res <=> CountOf(lim_last'.ip) < max_per_ip)]_vars

\* try_connect has returned True for an ip while another ip holds
\* max_per_ip connections
C31_Witness ==
    /\ lim_last.op = "try_connect"
    /\ lim_last.res
    /\ max_per_ip >= 1
    /\ \E ip \in Ips \ {lim_last.ip} : CountOf(ip) = max_per_ip

\* C32: for each published event the router makes at most one send attempt
\* per subscriber (a connection, known by its websocket): every event is
\* taken from the queue at most once, no two loops dispatch the same event,
\* and the sends that the dispatch of an event has started, failed ones
\* included, all went to different websockets, also when connections
\* unsubscribe and subscribe again during the dispatch.
C32_OneSendPerSubscriber ==
    /\ \A i, j \in 1..Len(dequeued) : i # j => dequeued[i] # dequeued[j]
    /\ \A t, u \in TaskIds :
           (t # u /\ SendEnabled(t) /\ SendEnabled(u))
               => tasks[t].ev.id # tasks[u].ev.id
    /\ \A t \in TaskIds :
           SendEnabled(t) =>
               /\ \E i \in 1..Len(dequeued) : dequeued[i] = tasks[t].ev.id
               /\ tasks[t].sends =
                      Cardinality({e.v : e \in tasks[t].tried})
    /\ \A f \in last.fin : f.sends = Cardinality({e.v : e \in f.tried})

RECURSIVE AcceptedUpTo(_)
\* the ids of the events for which publish returned True among the first
\* n publish calls, in the order of the calls
AcceptedUpTo(n) ==
    IF n = 0 THEN <<>>
    ELSE AcceptedUpTo(n - 1) \o (IF n \in rejected THEN <<>> ELSE <<n>>)

\* the ids of the events in the queue, oldest first
QueuedIds == [i \in 1..Len(event_queue) |-> event_queue[i].id]

\* C33: the queue is FIFO without loss or duplication: the events the
\* loops have taken from the queue are a prefix of the events that publish
\* accepted, in the order of the publish calls, and the accepted events not
\* yet taken are those in the queue, in the same order.
C33_DequeuedPrefixOfAccepted ==
    LET acc == AcceptedUpTo(next_event - 1)
    IN  /\ Len(dequeued) <= Len(acc)
        /\ \A i \in 1..Len(dequeued) : dequeued[i] = acc[i]
        /\ acc = dequeued \o QueuedIds

\* two accepted events have been taken from the queue
C33_Witness ==
    /\ Len(dequeued) >= 2
    /\ event_queue = <<>>
    /\ last.op \in {"wake", "send_done"}

\* C34: during the dispatch of an event the loop removes no subscriber
\* until it has gone through all subscriptions: a loop step that does not
\* end a dispatch leaves subscribers and filters as they are, and when a
\* dispatch in which sends failed has ended, every subscriber whose send
\* failed has been removed.
C34_RemovalAfterIteration ==
    [][/\ (last'.op \in {"wake", "send_done"} /\ last'.fin = {}) =>
              (subscribers' = subscribers /\ filters' = filters)
       /\ \A f \in last'.fin :
              \A e \in f.failed : e \notin DictItems(subscribers')]_vars

\* C35: in every reachable state subscribers and filters have the same set
\* of keys: no subscriber is registered without a filter entry and no
\* filter entry exists for an id that is not a registered subscriber.
C35_SameKeys == DictKeys(subscribers) = filters.keys

\* C36: the dispatch loop removes a subscription only if a send to that
\* subscription's own handle failed: the subscriptions that the end of a
\* dispatch takes out of the registry are among those whose send failed in
\* that dispatch.
C36_RemovedOnlyAfterOwnFailure ==
    [][\A f \in last'.fin :
          (DictItems(subscribers) \ DictItems(subscribers'))
              \subseteq f.failed]_vars

\* C37: when the handler of a subscriber connection ends and unsubscribes
\* its id, the id is left in neither subscribers nor filters, whatever
\* happened to the subscription before.
C37_HandlerEndLeavesNoEntry ==
    [][(last'.op = "unsubscribe" /\ last'.id \in connected) =>
          /\ last'.id \notin DictKeys(subscribers')
          /\ last'.id \notin filters'.keys]_vars

\* C38: subscribe with an id that is already registered: below capacity it
\* replaces the handle and the filter of that id and leaves the subscriber
\* count and every other subscription unchanged; at capacity it returns
\* False and keeps the old handle and filter.
C38_SubscribeRegisteredId ==
    [][\A id \in Ids, f \in SubFilters :
          (SubscribeNew(id, f) /\ DictHas(subscribers, id)) =>
              IF DictLen(subscribers) < max_subscribers
              THEN /\ last'.res = "True"
                   /\ DictGet(subscribers', id) = next_handle
                   /\ id \in filters'.keys
                   /\ filters'.val[id] = f
                   /\ DictLen(subscribers') = DictLen(subscribers)
                   /\ \A e \in DictItems(subscribers) :
                          e.k # id => /\ e \in DictItems(subscribers')
                                      /\ filters'.val[e.k] = filters.val[e.k]
              ELSE /\ last'.res = "False"
                   /\ subscribers' = subscribers
                   /\ filters' = filters]_vars

\* a subscribe below capacity has replaced, in place, the handle of the
\* only registered id
C38_Witness ==
    /\ last.op = "subscribe"
    /\ last.res = "True"
    /\ max_subscribers >= 2
    /\ subscribers.entries = <<[k |-> 1, v |-> 2]>>

\* a subscribe at capacity with the registered id has returned False and
\* the old handle is kept
C38_WitnessAtCapacity ==
    /\ last.op = "subscribe"
    /\ last.res = "False"
    /\ max_subscribers = 1
    /\ ids_used = 1
    /\ subscribers.entries = <<[k |-> 1, v |-> 1]>>

\* C39: after stop() and without a new start() the queue is never drained:
\* no event is taken from the queue and no send is started, and publish
\* returns True while the queue holds fewer than max_queue_size events and
\* False once it holds max_queue_size events.
C39_StoppedQueueNeverDrained ==
    [][starts = "stopped" =>
          /\ dequeued' = dequeued
          /\ last'.started = {}
          /\ Len(event_queue') >= Len(event_queue)
          /\ last'.op = "publish" =>
                (last'.res = "True" <=>
                    Len(event_queue) < max_queue_size)]_vars

\* the guards stated in Fairness are the enabling conditions of the steps
GuardsAreEnabling ==
    \A t \in TaskIds :
        /\ WakeEnabled(t) <=> ENABLED <<LoopWake(t)>>_vars
        /\ SendEnabled(t) <=> ENABLED <<\E ok \in BOOLEAN : SendDone(t, ok)>>_vars

====
